---- MODULE Spec2Model ----
(***************************************************************************)
(* State-machine model of the probing engine of XHtrace                    *)
(* (src/traceroute.py): the traceroute() generator with its raw-socket     *)
(* strategies and the tracert fallback, the mtr() cycle aggregator, the    *)
(* checksum and packet builders, the two threads that iterate the          *)
(* generators with their cancellation flag and signals, and the buttons    *)
(* of the window that start and stop them (src/main.py,                    *)
(* src/mtr_thread.py).                                                     *)
(*                                                                         *)
(* Conventions                                                             *)
(*   - delays are integers in hundredths of a millisecond;                 *)
(*   - a float progress value is the exact fraction <<num, den>>;          *)
(*   - a yielded dict is a record with a fixed set of fields; `keys` is    *)
(*     the set of keys the Python dict really has.                         *)
(***************************************************************************)
EXTENDS Integers, Sequences, FiniteSets, TLC

(***************************************************************************)
(* Bounds of the model.                                                    *)
(***************************************************************************)
MaxHops == 3            \* largest valid max_hops explored
MaxRetries == 2         \* largest max_retries explored
MaxCycles == 2          \* largest mtr cycle count explored
MaxBytes == 6           \* longest byte sequence given to calculate_checksum
MaxThreads == 4         \* most threads the window starts

(***************************************************************************)
(* Program constants.                                                      *)
(***************************************************************************)
HOPS_UPPER == 255
DEFAULT_MAX_RETRIES == 3
DEFAULT_TIMEOUT == 3            \* seconds
THREAD_MAX_RETRIES == 5         \* max_retries=5 in TracerouteThread.run
EPERM == 1
WORD == 65536                   \* 0xffff + 1
ICMP_ECHO_REQUEST == 8

ERROR_PERMISSION_DENIED == "Permission denied. Try running with administrative privileges."
ERROR_UNSUPPORTED_PROTOCOL == "Unsupported protocol: {}"
ERROR_INVALID_HOPS == "Hops must be between 1 and 255: {}"
ERROR_INVALID_TIMEOUT == "Timeout must be positive: {}"
ERROR_ADDRESS_RESOLUTION == "Could not resolve target: {}"
ERROR_TRACEROUTE_FAILED == "Traceroute failed: {}"

(***************************************************************************)
(* Values of the environment.                                              *)
(***************************************************************************)
HostName == "example.com"
AddrV4 == "93.184.216.34"
AddrV6 == "2606:2800:220:1::1"
\* a second address of each family, and an address of a family that is
\* neither AF_INET nor AF_INET6
AddrV4b == "93.184.216.35"
AddrV6b == "2606:2800:220:1::2"
AddrOther == "00:00:5e:00:53:01"
Routers == {"10.0.0.1", "10.0.0.2"}
\* The routers that answer probes: both in a single discovery run; the first
\* alone under mtr(), where the same path is probed cycle after cycle.
\* Aggregating tells that the records of traceroute() are consumed by mtr().
Aggregating(caller) == caller \in {"mtr", "MTRThread"}
RoutersOf(caller) == IF Aggregating(caller) THEN {"10.0.0.1"} ELSE Routers
NoAddr == ""

Protocols == {"icmp", "udp", "tcp", "ICMP", "gre"}
Platforms == {"Windows", "Linux"}
HopValues == {0} \cup (1 .. MaxHops) \cup {HOPS_UPPER + 1}
MtrHopValues == {0, 1, 2, HOPS_UPPER + 1}
TimeoutValues == {0, 2}          \* seconds: one non-positive, one positive
\* Round-trip times of answered probes, in hundredths of a millisecond.  A
\* discovery run does not read the value; mtr() aggregates it.
Delays(caller) == IF Aggregating(caller) THEN {100, 300} ELSE {300}

Family(a) == IF a \in {AddrV6, AddrV6b} THEN 6 ELSE 4

\* What getaddrinfo can return for a target: "gaierror", or a non-empty list
\* of <<family, address>> candidates.  An address literal resolves to itself.
Candidates == {<<4, AddrV4>>, <<4, AddrV4b>>, <<6, AddrV6>>, <<6, AddrV6b>>,
               <<0, AddrOther>>}
CandidateLists ==
    {<<c>> : c \in Candidates} \cup {<<c, d>> : c \in Candidates, d \in Candidates}
ResolverAnswers(target) ==
    IF target = HostName
    THEN {<<"gaierror">>} \cup {<<"ok", l>> : l \in CandidateLists}
    ELSE {<<"ok", <<<<Family(target), target>>>>>>}

(***************************************************************************)
(* Fractions (Python floats that are quotients of small integers).         *)
(***************************************************************************)
Frac(n, d) == <<n, d>>
FracLeq(p, q) == p[1] * q[2] <= q[1] * p[2]
FracEq(p, q) == p[1] * q[2] = q[1] * p[2]
FracMin(p, q) == IF FracLeq(p, q) THEN p ELSE q
One == Frac(1, 1)
Zero == Frac(0, 1)

(***************************************************************************)
(* Records yielded by a discovery run.                                     *)
(***************************************************************************)
\* f'{best_delay:.2f}ms' of the raw-socket strategies
FormatRawDelay(d) == [text |-> "{:.2f}ms", val |-> d]
\* f"{avg_delay:.1f} ms" of the fallback, avg_delay = total / n: one decimal,
\* ties to even
RoundTenth(total, n) ==
    LET q == total \div (10 * n)
        r == total - 10 * n * q
    IN  IF 2 * r > 10 * n \/ (2 * r = 10 * n /\ q % 2 = 1)
        THEN 10 * (q + 1) ELSE 10 * q
FormatTracertDelay(total, n) == [text |-> "{:.1f} ms", val |-> RoundTenth(total, n)]
RawTimeoutDelay == [text |-> "超时", val |-> 0]
TracertTimeoutDelay == [text |-> "Timeout", val |-> 0]
NoDelay == [text |-> "", val |-> 0]

HopInfo(hop, ip, hostname, delay, warning) ==
    [keys |-> {"hop", "ip", "hostname", "delay"}
                 \cup (IF warning THEN {"warning"} ELSE {}),
     hop |-> hop, ip |-> ip, hostname |-> hostname, delay |-> delay,
     error |-> ""]
ErrorInfo(msg) ==
    [keys |-> {"error"}, hop |-> 0, ip |-> NoAddr, hostname |-> "",
     delay |-> NoDelay, error |-> msg]
Yielded(info, progress, is_destination) ==
    [info |-> info, progress |-> progress, is_destination |-> is_destination]

(***************************************************************************)
(* State.                                                                  *)
(***************************************************************************)
VARIABLES
    entry,          \* the entry point the caller used: "traceroute" or "mtr"
    args,           \* arguments of the current traceroute() call
    pc,             \* position of the traceroute() generator
    target_ip,      \* traceroute(): resolved address
    ip_version,     \* traceroute(): its version
    strategy,       \* selected producer: icmp, icmpv6, udp, tracert
    ttl,            \* raw-socket strategies: loop variable ttl
    attempt,        \* raw-socket strategies: loop variable attempt
    visited_ips,    \* visited_ips of the running strategy
    sock,           \* raw socket: none, open, closed
    process,        \* tracert subprocess: none, running, reaped
    return_code,    \* fallback: <<process.wait()>> once it has returned, else <<>>
    stderr,         \* fallback: what process.stderr.read() returned
    line,           \* fallback: the line of tracert's output read last, as tokens
    current_hop,    \* fallback: current_hop
    out,            \* what the current traceroute() call has yielded
    probes,         \* number of probes the current run has sent
    io,             \* I/O operations attempted since the entry call, with
                    \* "EPERM" once one of them was refused for lack of privilege
                    \* and "socket.error" once one failed with another error
    raised,         \* exception that left traceroute(), or NoError
    addrinfo,       \* traceroute(): the list getaddrinfo returned, while in use
    current_timeout, \* raw-socket strategies: deadline of the latest probe
    reply_origin,   \* what the datagram behind the latest responder answered
    margs,          \* arguments of the mtr() call
    mpc,            \* position of the mtr() generator
    resolvable,     \* mtr(): the families getaddrinfo had an address of the
                    \* target for when mtr() resolved it
    dest_ip,        \* mtr(): resolved address
    mtr_ip_version, \* mtr(): its version
    cycle,          \* mtr(): loop variable cycle
    started,        \* mtr(): traceroute() calls made so far
    hop_data,       \* mtr(): hop_data, a function from hop numbers
    summaries,      \* what mtr() has yielded
    mraised,        \* exception that left mtr(), or NoError
    running,        \* the thread's flag `running`; stop() clears it
    signals,        \* the signals run() has emitted, in order
    threads,        \* the application: the threads it has started, each with
                    \* its class, its flag `running` and isRunning()
    traceroute_thread, \* MainWindow.traceroute_thread: index in threads, 0 if unset
    mtr_thread,     \* MainWindow.mtr_thread: index in threads, 0 if unset
    trace_button,   \* trace_button.isEnabled()
    mtr_button,     \* mtr_button.isEnabled()
    stop_button,    \* stop_button.isEnabled()
    events,         \* threads whose finished_signal is queued for the GUI thread
    aborted,        \* the process was aborted by Qt
    call,           \* a call of calculate_checksum or create_icmp_packet
    returned        \* <<what the call returned>>, <<>> before it returns

tvars == <<args, pc, target_ip, ip_version, strategy, ttl, attempt, visited_ips,
           sock, process, return_code, stderr, current_hop, line, out, probes, raised, addrinfo,
           current_timeout, reply_origin>>
mvars == <<margs, mpc, resolvable, dest_ip, mtr_ip_version, cycle, started, summaries, mraised>>
cvars == <<call, returned>>
gvars == <<threads, traceroute_thread, mtr_thread, trace_button, mtr_button,
           stop_button, events, aborted>>
probing == <<entry, tvars, io, hop_data, mvars, running, signals, cvars>>
vars == <<probing, gvars>>

\* No traceroute() call in progress
NoArgs == [target |-> "", max_hops |-> 0, timeout |-> 0, resolve_dns |-> FALSE,
           protocol |-> "", max_retries |-> 0, ipv6 |-> FALSE, platform |-> ""]

NoError == [type |-> "", msg |-> ""]
Error(type, msg) == [type |-> type, msg |-> msg]

(***************************************************************************)
(* traceroute(): target resolution (the loop over getaddrinfo's result).   *)
(***************************************************************************)
NoTarget == <<0, NoAddr>>

\* One iteration: the selection after candidate c, given the selection sel
\* so far; done tells that the loop has hit its break.
RECURSIVE SelectFrom(_, _, _, _)
SelectFrom(list, i, ipv6, sel) ==
    IF i > Len(list) THEN sel
    ELSE LET af == list[i][1]
             preferred == IF ipv6 THEN 6 ELSE 4
             other == IF ipv6 THEN 4 ELSE 6
         IN  IF af = preferred THEN list[i]
             ELSE IF af = other /\ sel[1] = 0
                  THEN SelectFrom(list, i + 1, ipv6, list[i])
                  ELSE SelectFrom(list, i + 1, ipv6, sel)

\* Variant of ResolveTarget: without the test `ip_version is None` the last
\* candidate of the other family replaces the earlier ones
ResolveTarget_LastOther(list, ipv6) ==
    LET preferred == IF ipv6 THEN 6 ELSE 4
        other == IF ipv6 THEN 4 ELSE 6
        p == {i \in 1 .. Len(list) : list[i][1] = preferred}
        o == {i \in 1 .. Len(list) : list[i][1] = other}
    IN  IF p # {} THEN list[CHOOSE i \in p : \A j \in p : i <= j]
        ELSE IF o # {} THEN list[CHOOSE i \in o : \A j \in o : j <= i]
        ELSE NoTarget

ResolveTarget(list, ipv6) == SelectFrom(list, 1, ipv6, NoTarget)

(***************************************************************************)
(* Progress values.                                                        *)
(***************************************************************************)
\* min(1.0, ttl / max_hops), and 1.0 on the destination
HopProgress(n, max_hops, is_destination) ==
    IF is_destination THEN One ELSE FracMin(One, Frac(n, max_hops))
\* int((ttl / max_hops) * 100) of the record that reports a loop
LoopProgress(n, max_hops) == Frac((100 * n) \div max_hops, 1)

(***************************************************************************)
(* mtr(): folding one yielded record into hop_data.                        *)
(***************************************************************************)
INF == 1000000000       \* float('inf')
MISSING_HOP == -1       \* hop_info.get('hop', -1)

RECURSIVE SeqSum(_)
SeqSum(q) == IF q = <<>> THEN 0 ELSE q[1] + SeqSum(Tail(q))
RECURSIVE SeqSumSq(_)
SeqSumSq(q) == IF q = <<>> THEN 0 ELSE q[1] * q[1] + SeqSumSq(Tail(q))
Min2(a, b) == IF a <= b THEN a ELSE b
Max2(a, b) == IF a >= b THEN a ELSE b

\* 'ms' in delay
ContainsMs(text) == text \in {"{:.2f}ms", "{:.1f} ms"}

NewHop(hop_num, hop_ip, hostname) ==
    [hop |-> hop_num, ip |-> hop_ip, hostname |-> hostname, delays |-> <<>>,
     loss_percent |-> Zero, min_delay |-> INF, max_delay |-> 0,
     avg_delay |-> Zero, std_dev |-> Zero]

\* min_delay / max_delay after one more sample
UpdateMin(cur, delay_value) == Min2(cur, delay_value)
UpdateMax(cur, delay_value) == Max2(cur, delay_value)

\* Variant of AddSample: the sample is appended twice
AddSample_Twice(delays, delay_value) == Append(Append(delays, delay_value), delay_value)

\* hop_data[hop_num]['delays'].append(delay_value)
AddSample(delays, delay_value) == Append(delays, delay_value)

ProcessHop(hd, info) ==
    LET hop_num == IF "hop" \in info.keys THEN info.hop ELSE MISSING_HOP
        hop_ip == IF "ip" \in info.keys THEN info.ip ELSE "*"
        hostname == IF "hostname" \in info.keys THEN info.hostname ELSE ""
        delay == IF "delay" \in info.keys THEN info.delay ELSE TracertTimeoutDelay
        e0 == IF hop_num \in DOMAIN hd THEN hd[hop_num]
              ELSE NewHop(hop_num, hop_ip, hostname)
        e1 == IF hostname # "" /\ e0.hostname = ""
              THEN [e0 EXCEPT !.hostname = hostname] ELSE e0
        e2 == IF delay.text # "Timeout" /\ ContainsMs(delay.text)
              THEN [e1 EXCEPT !.delays = AddSample(@, delay.val),
                              !.min_delay = UpdateMin(@, delay.val),
                              !.max_delay = UpdateMax(@, delay.val)]
              ELSE e1
    IN  [h \in DOMAIN hd \cup {hop_num} |-> IF h = hop_num THEN e2 ELSE hd[h]]

(***************************************************************************)
(* mtr(): statistics after a cycle and at the end.                         *)
(***************************************************************************)
\* Variant of LossPercent: the share received instead of the share lost
LossPercent_Received(total_packets, received_packets) ==
    Frac(received_packets * 100, total_packets)

LossPercent(total_packets, received_packets) ==
    Frac((total_packets - received_packets) * 100, total_packets)
\* statistics.mean(delays)
Mean(delays) == Frac(SeqSum(delays), Len(delays))
\* statistics.stdev(delays), kept as its square: the sample variance
Stdev(delays) ==
    LET n == Len(delays)
    IN  Frac(n * SeqSumSq(delays) - SeqSum(delays) * SeqSum(delays), n * (n - 1))

UpdateHopStats(hop, total_packets) ==
    [hop EXCEPT
        !.loss_percent = LossPercent(total_packets, Len(hop.delays)),
        !.avg_delay = IF hop.delays # <<>> THEN Mean(hop.delays) ELSE Zero,
        !.std_dev = IF Len(hop.delays) > 1 THEN Stdev(hop.delays) ELSE Zero,
        !.min_delay = IF hop.min_delay = INF THEN 0 ELSE hop.min_delay]

UpdateStats(hd, total_packets) ==
    [h \in DOMAIN hd |-> UpdateHopStats(hd[h], total_packets)]

\* sorted(hop_data.keys())
RECURSIVE SortedKeys(_)
SortedKeys(S) ==
    IF S = {} THEN <<>>
    ELSE LET m == CHOOSE x \in S : \A y \in S : x <= y
         IN  <<m>> \o SortedKeys(S \ {m})

\* hop.copy(): a shallow copy; the 'delays' list stays shared with hop_data,
\* so the copy holds the key of the list, not its content.
CopyHop(hop) ==
    [hop |-> hop.hop, ip |-> hop.ip, hostname |-> hop.hostname,
     delays_ref |-> hop.hop, loss_percent |-> hop.loss_percent,
     min_delay |-> hop.min_delay, max_delay |-> hop.max_delay,
     avg_delay |-> hop.avg_delay, std_dev |-> hop.std_dev]

AllHopsData(hd) ==
    LET keys == SortedKeys(DOMAIN hd)
    IN  [i \in 1 .. Len(keys) |-> CopyHop(hd[keys[i]])]

CycleSummary(cycles_complete, total_cycles, progress, hd) ==
    [cycles_complete |-> cycles_complete, total_cycles |-> total_cycles,
     progress |-> progress, hops |-> AllHopsData(hd)]

(***************************************************************************)
(* The tracert fallback: output lines and their parsing.                   *)
(* A line is the sequence of its whitespace-separated tokens               *)
(* (line.strip().split()).  traceroute() always passes resolve_dns=False,  *)
(* so tracert runs with -d and prints no host names or [address] tokens.   *)
(***************************************************************************)
NumStrs == <<"1", "2", "3", "4", "5", "6", "7", "8", "9">>
IsDigit(tok) == \E i \in 1 .. Len(NumStrs) : NumStrs[i] = tok
IntOf(tok) == CHOOSE i \in 1 .. Len(NumStrs) : NumStrs[i] = tok
ToStr(n) == NumStrs[n]

AllAddrs == Routers \cup {AddrV4, AddrV4b, AddrV6, AddrV6b}
IsIPv4(tok) == tok \in AllAddrs /\ Family(tok) = 4
IsIPv6(tok) == tok \in AllAddrs /\ Family(tok) = 6

\* What tracert prints for one hop: the hop number, three round-trip
\* columns ("*", "<1 ms" or "N ms"), then the responder's address, or
\* "Request timed out." when no probe was answered.
ColumnTriples(caller) ==
    {<<"*", "*", "*">>, <<"3", "3", "3">>, <<"*", "3", "3">>}
        \cup (IF Aggregating(caller) THEN {<<"<1", "3", "1">>} ELSE {<<"3", "*", "*">>})
Column(r) == IF r = "*" THEN <<"*">> ELSE <<r, "ms">>
HopLine(n, r1, r2, r3, addr) ==
    <<ToStr(n)>> \o Column(r1) \o Column(r2) \o Column(r3)
        \o (IF r1 = "*" /\ r2 = "*" /\ r3 = "*"
            THEN <<"Request", "timed", "out.">> ELSE <<addr>>)
BannerLine == <<"Tracing", "route", "to", "target">>

\* rtt_values: tokens 1..3 (Python indices) of the line
RttValue(tok) ==
    IF tok = "*" THEN <<>>
    ELSE IF tok = "<1" THEN <<50>>
    ELSE IF IsDigit(tok) THEN <<100 * IntOf(tok)>>
    ELSE <<>>
RECURSIVE RttValues(_, _)
RttValues(parts, i) ==
    IF i > Min2(4, Len(parts)) THEN <<>>
    ELSE RttValue(parts[i]) \o RttValues(parts, i + 1)

\* any(keyword in ' '.join(parts) for keyword in timeout_keywords)
HasTimeoutKeyword(parts) ==
    \/ \E i \in 1 .. Len(parts) : parts[i] = "*"
    \/ \E i \in 1 .. Len(parts) - 1 : parts[i] = "timed" /\ parts[i + 1] = "out."

\* ip of the line: '*', the first address token from Python index 4 on,
\* else the last token if it is an IPv4 address, else None (NoAddr)
LineIp(parts) ==
    IF HasTimeoutKeyword(parts) THEN "*"
    ELSE LET idx == {i \in 5 .. Len(parts) : IsIPv4(parts[i]) \/ IsIPv6(parts[i])}
         IN  IF idx # {} THEN parts[CHOOSE i \in idx : \A j \in idx : i <= j]
             ELSE IF IsIPv4(parts[Len(parts)]) THEN parts[Len(parts)]
             ELSE NoAddr

\* avg_rtt of the line
LineDelay(parts) ==
    LET rtt_values == RttValues(parts, 2)
    IN  IF LineIp(parts) = "*" THEN TracertTimeoutDelay
        ELSE IF rtt_values # <<>>
             THEN FormatTracertDelay(SeqSum(rtt_values), Len(rtt_values))
             ELSE TracertTimeoutDelay

\* the record built from a numbered line, loop warning included
TracertHop(parts, visited) ==
    LET ip == LineIp(parts)
    IN  HopInfo(IntOf(parts[1]), ip, "", LineDelay(parts),
                ip # "*" /\ ip \in visited)

(***************************************************************************)
(* traceroute(): the generator, one action per step between two points     *)
(* where it waits for the environment or hands a record to its consumer.   *)
(***************************************************************************)
\* The consumer receives y.  mtr() folds the record into hop_data before it
\* asks for the next one.
Consume(y) ==
    /\ out' = Append(out, y)
    /\ hop_data' = IF Aggregating(entry) THEN ProcessHop(hop_data, y.info)
                   ELSE hop_data

\* Variant of AfterDestination: the break after the destination is missing
AfterDestination_NoBreak ==
    IF strategy = "tracert" THEN "read" ELSE "probe"

\* Where the generator is after it yielded the destination record.  mtr()
\* and TracerouteThread.run break out of their loops and never resume it; a
\* consumer that iterates to the end resumes it, and then traceroute() (raw
\* strategies) or _windows_tracert breaks.
AfterDestination ==
    IF entry \in {"mtr", "MTRThread", "TracerouteThread"} THEN "abandoned"
    ELSE IF strategy = "tracert" THEN "tracert_wait" ELSE "done"

(***************************************************************************)
(* TracerouteThread.run and MTRThread.run: what the thread emits for the   *)
(* item its generator hands over, and when the generator ends or raises.   *)
(***************************************************************************)
Update == <<"update_signal">>
Finished(success) == <<"finished_signal", success>>
HasReturned(emitted) ==
    emitted # <<>> /\ emitted[Len(emitted)][1] = "finished_signal"

\* Variant of RunBody: an error record is shown like a hop and the loop goes on
RunBody_ErrorAsHop(y) ==
    IF ~running THEN <<Finished(FALSE)>>
    ELSE IF y.is_destination THEN <<Update, Finished(TRUE)>>
    ELSE <<Update>>

\* TracerouteThread.run: the body of the for loop for the item y, with the
\* finished_signal.emit(True) that follows the break at the destination
RunBody(y) ==
    IF ~running THEN <<Finished(FALSE)>>
    ELSE IF "error" \in y.info.keys THEN <<Update, Finished(FALSE)>>
    ELSE IF y.is_destination THEN <<Update, Finished(TRUE)>>
    ELSE <<Update>>

\* MTRThread.run: the body of the for loop
MtrRunBody == IF ~running THEN <<Finished(FALSE)>> ELSE <<Update>>

\* after the loop: finished_signal.emit(True); in `except Exception`:
\* update_signal.emit(...) and finished_signal.emit(False)
AfterLoop(body, ended, failed) ==
    IF HasReturned(body) THEN body
    ELSE IF ended THEN Append(body, Finished(TRUE))
    ELSE IF failed THEN body \o <<Update, Finished(FALSE)>>
    ELSE body

TracerouteThreadEmits ==
    AfterLoop(IF Len(out') > Len(out) THEN RunBody(out'[Len(out')]) ELSE <<>>,
              pc' = "done" /\ pc # "done", pc' = "raised" /\ pc # "raised")

MTRThreadEmits ==
    AfterLoop(IF Len(summaries') > Len(summaries) THEN MtrRunBody ELSE <<>>,
              mpc' = "done" /\ mpc # "done", mpc' = "raised" /\ mpc # "raised")

\* What a step of the generator makes its consumer emit
Emit ==
    signals' = signals \o (IF entry = "TracerouteThread" THEN TracerouteThreadEmits
                           ELSE IF entry = "MTRThread" THEN MTRThreadEmits
                           ELSE <<>>)

\* Parameter validation at the head of traceroute()
ValidationError(a) ==
    IF a.protocol \notin {"udp", "icmp", "tcp"}
    THEN Error("ValueError", ERROR_UNSUPPORTED_PROTOCOL)
    ELSE IF a.max_hops < 1 \/ a.max_hops > HOPS_UPPER
    THEN Error("ValueError", ERROR_INVALID_HOPS)
    ELSE IF a.timeout <= 0
    THEN Error("ValueError", ERROR_INVALID_TIMEOUT)
    ELSE NoError

Validate ==
    /\ pc = "validate"
    /\ raised' = ValidationError(args)
    /\ pc' = IF raised' = NoError THEN "resolve" ELSE "raised"
    /\ UNCHANGED <<entry, cvars, gvars, running, addrinfo, current_timeout, reply_origin, args, target_ip, ip_version, strategy, ttl, attempt,
                   visited_ips, sock, process, return_code, stderr, current_hop, line, out, probes, io,
                   hop_data, mvars>>
    /\ Emit

\* Variant of AfterResolutionError: the return after the yield is missing
AfterResolutionError_FallThrough == "select"

\* `return` after the address-resolution error record was yielded
AfterResolutionError == "done"

Resolve ==
    /\ pc = "resolve"
    /\ io' = io \cup {"getaddrinfo"}
    /\ \E answer \in ResolverAnswers(args.target) :
          LET sel == IF answer[1] = "ok"
                     THEN ResolveTarget(answer[2], args.ipv6) ELSE NoTarget
          IN  /\ addrinfo' = (IF answer[1] = "ok" THEN answer[2] ELSE <<>>)
              /\ IF sel = NoTarget
                 THEN /\ Consume(Yielded(ErrorInfo(ERROR_ADDRESS_RESOLUTION), Zero, FALSE))
                      /\ pc' = AfterResolutionError
                      /\ UNCHANGED <<target_ip, ip_version>>
                 ELSE /\ target_ip' = sel[2]
                      /\ ip_version' = sel[1]
                      /\ pc' = "select"
                      /\ UNCHANGED <<out, hop_data>>
    /\ UNCHANGED <<entry, cvars, gvars, running, current_timeout, reply_origin, args, strategy, ttl, attempt, visited_ips, sock,
                   process, return_code, stderr, current_hop, line, probes, raised, mvars>>
    /\ Emit

\* Platform and protocol dispatch
SelectStrategy ==
    /\ pc = "select"
    /\ addrinfo' = <<>>
    /\ IF args.platform = "Windows"
       THEN /\ strategy' = "tracert"
            /\ pc' = "spawn"
            /\ UNCHANGED <<out, hop_data>>
       ELSE IF args.protocol = "icmp"
       THEN /\ strategy' = IF ip_version = 6 THEN "icmpv6" ELSE "icmp"
            /\ pc' = "socket"
            /\ UNCHANGED <<out, hop_data>>
       ELSE IF args.protocol = "udp"
       THEN /\ strategy' = IF ip_version = 6 THEN "icmpv6" ELSE "udp"
            /\ pc' = "socket"
            /\ UNCHANGED <<out, hop_data>>
       ELSE /\ Consume(Yielded(ErrorInfo(ERROR_UNSUPPORTED_PROTOCOL), Zero, FALSE))
            /\ pc' = "done"
            /\ UNCHANGED strategy
    /\ UNCHANGED <<entry, cvars, gvars, running, current_timeout, reply_origin, args, target_ip, ip_version, ttl, attempt, visited_ips,
                   sock, process, return_code, stderr, current_hop, line, probes, io, raised, mvars>>
    /\ Emit

\* The error record a raw strategy yields from its except clause reaches
\* traceroute(), which raises TracerouteError(hop_info['error']).
StrategyFailure(msg) ==
    Error("TracerouteError", msg)

\* socket.socket(...) at the head of a raw strategy
OpenSocket ==
    /\ pc = "socket"
    /\ \E result \in {"ok", "EPERM", "EAFNOSUPPORT"} :
          IF result = "ok"
          THEN /\ io' = io \cup {"socket"}
               /\ sock' = "open"
               /\ ttl' = 1
               /\ attempt' = 0
               /\ visited_ips' = {}
               /\ pc' = "probe"
               /\ UNCHANGED raised
          ELSE /\ io' = io \cup {"socket"} \cup (IF result = "EPERM" THEN {"EPERM"} ELSE {})
               /\ raised' = StrategyFailure(result)
               /\ pc' = "raised"
               /\ UNCHANGED <<sock, ttl, attempt, visited_ips>>
    /\ UNCHANGED <<entry, cvars, gvars, running, addrinfo, current_timeout, reply_origin, args, target_ip, ip_version, strategy, process, return_code, stderr,
                   current_hop, line, out, probes, hop_data, mvars>>
    /\ Emit

(***************************************************************************)
(* Raw-socket strategies (_icmp_traceroute, _icmpv6_traceroute,            *)
(* _udp_traceroute): one action per call of send_receive_packet.           *)
(***************************************************************************)
\* An earlier probe of the run went unanswered: its reply can still arrive
LatePossible ==
    attempt > 0 \/ \E i \in 1 .. Len(out) : out[i].info.ip = "*"

\* What the first datagram that becomes readable on the raw socket can be:
\* the reply to the probe just sent ("probe"), the reply to an earlier probe
\* of the run ("late"), or a datagram that answers no probe of the run
\* ("unrelated": a raw ICMP socket receives the ICMP traffic of the host).
\* Under mtr() the model delivers matching replies only.
DatagramOrigins ==
    IF Aggregating(entry) THEN {"probe"}
    ELSE {"probe", "unrelated"} \cup (IF LatePossible THEN {"late"} ELSE {})

\* sendto or recvfrom fails with an errno other than EPERM.  Under mtr() such
\* a probe is left to the outcome "timeout", which the engine treats alike.
OtherSocketErrors ==
    IF Aggregating(entry) THEN {}
    ELSE {<<"send_error", 101>>, <<"recv_error", 104>>}

\* What can happen to one probe
ProbeOutcomes(target) ==
    {<<"reply", a, d, o>> : a \in RoutersOf(entry) \cup {target},
                            d \in Delays(entry), o \in DatagramOrigins}
        \cup {<<"timeout", 0>>, <<"send_error", EPERM>>, <<"recv_error", EPERM>>}
        \cup OtherSocketErrors

\* sendto or recvfrom raised a socket error that is not EPERM
TransportError(outcome) ==
    outcome[1] \in {"send_error", "recv_error"} /\ outcome[2] # EPERM

\* send_receive_packet: <<"addr", hop_ip, delay>>, <<"none">> for
\* (None, None, None), or <<"raise", message>>
send_receive_packet(outcome) ==
    IF outcome[1] = "reply" THEN <<"addr", outcome[2], outcome[3]>>
    ELSE IF outcome[1] = "timeout" THEN <<"none">>
    ELSE IF outcome[2] = EPERM THEN <<"raise", ERROR_PERMISSION_DENIED>>
    ELSE <<"none">>

\* Variant of CurrentTimeout: the deadline does not grow with the attempt
CurrentTimeout_Flat(timeout, n) == 2 * timeout

\* current_timeout = timeout + attempt * 0.5, in half seconds
CurrentTimeout(timeout, n) == 2 * timeout + n

\* socket.gethostbyaddr / getnameinfo: the reverse zone of the environment
\* names one router; the lookup of any other address fails.
NamedRouter == "10.0.0.1"
ReverseName(ip) == IF ip = NamedRouter THEN "gw.example.net" ELSE ip
RawHostname(ip, resolve_dns) == IF resolve_dns THEN ReverseName(ip) ELSE ip

\* Variant of IsLoop: the membership test is lost
IsLoop_Never(hop_ip, visited) == FALSE

\* hop_ip in visited_ips
IsLoop(hop_ip, visited) == hop_ip \in visited

\* the record of a hop that answered, and of one that did not
RawHop(n, hop_ip, delay, resolve_dns, visited) ==
    HopInfo(n, hop_ip, RawHostname(hop_ip, resolve_dns), FormatRawDelay(delay),
            IsLoop(hop_ip, visited))
RawTimeoutHop(n) == HopInfo(n, "*", "", RawTimeoutDelay, FALSE)

\* Variant of NextTtl: range(1, max_hops + 2)
NextTtl_OneMore ==
    IF ttl <= args.max_hops
    THEN /\ ttl' = ttl + 1
         /\ attempt' = 0
         /\ pc' = "probe"
         /\ UNCHANGED sock
    ELSE /\ pc' = "done"
         /\ sock' = "closed"
         /\ UNCHANGED <<ttl, attempt>>

\* the for loop over ttl moves on, or ends and the socket is closed
NextTtl ==
    IF ttl < args.max_hops
    THEN /\ ttl' = ttl + 1
         /\ attempt' = 0
         /\ pc' = "probe"
         /\ UNCHANGED sock
    ELSE /\ pc' = "done"
         /\ sock' = "closed"
         /\ UNCHANGED <<ttl, attempt>>

\* The consumer is TracerouteThread.run, which has found `running` cleared
\* at the record just yielded and returns without resuming the generator
Cancelled == entry = "TracerouteThread" /\ ~running

\* The generator is not resumed after its yield
Abandon ==
    /\ pc' = "abandoned"
    /\ UNCHANGED <<ttl, attempt, sock>>

Probe ==
    /\ pc = "probe"
    /\ probes' = probes + 1
    /\ current_timeout' = CurrentTimeout(args.timeout, attempt)
    /\ \E outcome \in ProbeOutcomes(target_ip) :
          LET res == send_receive_packet(outcome)
          IN  /\ io' = io \cup {"sendto"}
                        \cup (IF res[1] = "raise" THEN {"EPERM"} ELSE {})
                        \cup (IF TransportError(outcome) THEN {"socket.error"} ELSE {})
              /\ reply_origin' = IF res[1] = "addr" THEN outcome[4] ELSE reply_origin
              /\ IF res[1] = "raise"
                 THEN \* caught by the strategy's except clause
                      /\ raised' = StrategyFailure(res[2])
                      /\ pc' = "raised"
                      /\ UNCHANGED <<ttl, attempt, visited_ips, sock, out, hop_data>>
                 ELSE IF res[1] = "addr"
                 THEN LET hop_ip == res[2]
                          hop_info == RawHop(ttl, hop_ip, res[3], args.resolve_dns,
                                             visited_ips)
                          is_destination == hop_ip = target_ip
                      IN  IF IsLoop(hop_ip, visited_ips)
                          THEN /\ Consume(Yielded(hop_info,
                                                  LoopProgress(ttl, args.max_hops), FALSE))
                               /\ IF Cancelled THEN Abandon
                                  ELSE /\ pc' = "done"
                                       /\ sock' = "closed"
                                       /\ UNCHANGED <<ttl, attempt>>
                               /\ UNCHANGED <<visited_ips, raised>>
                          ELSE /\ visited_ips' = visited_ips \cup {hop_ip}
                               /\ Consume(Yielded(hop_info,
                                       HopProgress(ttl, args.max_hops, is_destination),
                                       is_destination))
                               /\ IF is_destination
                                  THEN /\ pc' = AfterDestination
                                       /\ UNCHANGED <<ttl, attempt, sock>>
                                  ELSE IF Cancelled THEN Abandon
                                  ELSE NextTtl
                               /\ UNCHANGED raised
                 ELSE IF attempt + 1 < args.max_retries
                 THEN /\ attempt' = attempt + 1
                      /\ UNCHANGED <<pc, ttl, visited_ips, sock, out, hop_data, raised>>
                 ELSE /\ Consume(Yielded(RawTimeoutHop(ttl),
                                         HopProgress(ttl, args.max_hops, FALSE), FALSE))
                      /\ IF Cancelled THEN Abandon ELSE NextTtl
                      /\ UNCHANGED <<visited_ips, raised>>
    /\ UNCHANGED <<entry, cvars, gvars, running, addrinfo, args, target_ip, ip_version, strategy,
                   process, return_code, stderr, current_hop, line, mvars>>
    /\ Emit

(***************************************************************************)
(* The tracert fallback (_windows_tracert).                                *)
(***************************************************************************)
\* subprocess.Popen(cmd, ...)
Spawn ==
    /\ pc = "spawn"
    /\ io' = io \cup {"popen"}
    /\ \E result \in {"ok", "FileNotFoundError"} :
          IF result = "ok"
          THEN /\ process' = "running"
               /\ UNCHANGED <<return_code, stderr>>
               /\ current_hop' = 0
               /\ line' = <<>>
               /\ visited_ips' = {}
               /\ pc' = "read"
               /\ UNCHANGED <<out, hop_data>>
          ELSE /\ Consume(Yielded(ErrorInfo(result), Zero, FALSE))
               /\ pc' = "done"
               /\ UNCHANGED <<process, return_code, stderr, current_hop, line, visited_ips>>
    /\ UNCHANGED <<entry, cvars, gvars, running, addrinfo, current_timeout, reply_origin, args, target_ip, ip_version, strategy, ttl, attempt,
                   sock, probes, raised, mvars>>
    /\ Emit

\* The lines tracert -h max_hops can print next: a banner, or the line of
\* hop current_hop + 1 while that is at most max_hops.
NextLines ==
    {BannerLine} \cup
    (IF current_hop < args.max_hops
     THEN {HopLine(current_hop + 1, r[1], r[2], r[3], a) :
               r \in ColumnTriples(entry), a \in RoutersOf(entry) \cup {target_ip}}
     ELSE {})

\* One iteration of `for line in process.stdout`
ReadLine ==
    /\ pc = "read"
    /\ \E parts \in NextLines :
       /\ line' = parts
       /\ IF IsDigit(parts[1])
          THEN LET hop_info == TracertHop(parts, visited_ips)
                   ip == hop_info.ip
                   is_destination == ip = target_ip
               IN  /\ current_hop' = current_hop + 1
                   /\ visited_ips' = IF ip # "*" THEN visited_ips \cup {ip}
                                     ELSE visited_ips
                   /\ Consume(Yielded(hop_info,
                           HopProgress(current_hop + 1, args.max_hops, is_destination),
                           is_destination))
                   /\ pc' = IF is_destination THEN AfterDestination
                            ELSE IF Cancelled THEN "abandoned" ELSE "read"
          ELSE UNCHANGED <<current_hop, visited_ips, out, hop_data, pc>>
    /\ UNCHANGED <<entry, cvars, gvars, running, addrinfo, current_timeout, reply_origin, args, target_ip, ip_version, strategy, ttl, attempt,
                   sock, process, return_code, stderr, probes, io, raised, mvars>>
    /\ Emit

\* process.stdout is exhausted
EndOfOutput ==
    /\ pc = "read"
    /\ pc' = "tracert_wait"
    /\ UNCHANGED <<entry, cvars, gvars, running, addrinfo, current_timeout, reply_origin, args, target_ip, ip_version, strategy, ttl, attempt,
                   visited_ips, sock, process, return_code, stderr, current_hop, line, out, probes, io,
                   raised, hop_data, mvars>>
    /\ Emit

\* The tool's failure is reported without the check of current_hop
ToolErrorReported_Always(code, err, hops) == err # "" \/ code # 0

\* `if stderr or return_code != 0:` ... `if current_hop == 0:`
ToolErrorReported(code, err, hops) == (err # "" \/ code # 0) /\ hops = 0

\* process.wait(), process.stderr.read() and the error record
Wait ==
    /\ pc = "tracert_wait"
    /\ process' = "reaped"
    /\ \E code \in {0, 1}, err \in {"", "Unable to resolve target system name."} :
       /\ return_code' = <<code>>
       /\ stderr' = err
       /\ IF ToolErrorReported(code, err, current_hop)
          THEN Consume(Yielded(ErrorInfo("Windows tracert error"), Zero, FALSE))
          ELSE UNCHANGED <<out, hop_data>>
    /\ pc' = "done"
    /\ UNCHANGED <<entry, cvars, gvars, running, addrinfo, current_timeout, reply_origin, args, target_ip, ip_version, strategy, ttl, attempt,
                   visited_ips, sock, current_hop, line, probes, io, raised, mvars>>
    /\ Emit

(***************************************************************************)
(* mtr(): the cycle aggregator.                                            *)
(***************************************************************************)
\* protocol.lower()
Lower(protocol) == IF protocol = "ICMP" THEN "icmp" ELSE protocol

\* The families for which getaddrinfo(target, None, family) answers
FamilySets == SUBSET {4, 6}
AddrOf(family) == IF family = 6 THEN AddrV6 ELSE AddrV4

\* mtr()'s own resolution: <<ip_version, dest_ip>>, or NoTarget when it
\* raises TracerouteError("Failed to resolve target ...")
MtrResolveTarget(families, ipv6) ==
    IF ipv6
    THEN IF 6 \in families THEN <<6, AddrOf(6)>> ELSE NoTarget
    ELSE IF 4 \in families THEN <<4, AddrOf(4)>>
    ELSE IF 6 \in families THEN <<6, AddrOf(6)>>
    ELSE NoTarget

MtrValidate ==
    /\ mpc = "validate"
    /\ margs' = [margs EXCEPT !.protocol = Lower(@)]
    /\ IF margs'.protocol \notin {"icmp", "tcp", "udp"}
       THEN /\ mraised' = Error("TracerouteError", ERROR_UNSUPPORTED_PROTOCOL)
            /\ mpc' = "raised"
       ELSE /\ mpc' = "resolve"
            /\ UNCHANGED mraised
    /\ UNCHANGED <<entry, cvars, gvars, running, tvars, io, hop_data, dest_ip, resolvable, mtr_ip_version, cycle,
                   started, summaries>>
    /\ Emit

MtrResolve ==
    /\ mpc = "resolve"
    /\ io' = io \cup {"getaddrinfo"}
    /\ \E families \in FamilySets :
       /\ resolvable' = families
       /\ LET sel == MtrResolveTarget(families, margs.ipv6)
          IN  IF sel = NoTarget
              THEN /\ mraised' = Error("TracerouteError", "Failed to resolve target")
                   /\ mpc' = "raised"
                   /\ UNCHANGED <<dest_ip, mtr_ip_version>>
              ELSE /\ dest_ip' = sel[2]
                   /\ mtr_ip_version' = sel[1]
                   /\ mpc' = "cycle"
                   /\ UNCHANGED mraised
    /\ UNCHANGED <<entry, cvars, gvars, running, tvars, hop_data, margs, cycle, started, summaries>>
    /\ Emit

\* The arguments of the traceroute() call of a cycle
CycleArgs ==
    [target |-> dest_ip, max_hops |-> margs.max_hops, timeout |-> margs.timeout,
     resolve_dns |-> margs.resolve_dns, protocol |-> margs.protocol,
     max_retries |-> DEFAULT_MAX_RETRIES, ipv6 |-> (mtr_ip_version = 6),
     platform |-> margs.platform]

\* `for cycle in range(count)`: the next cycle calls traceroute()
StartCycle ==
    /\ mpc = "cycle"
    /\ pc = "idle"
    /\ cycle < margs.count
    /\ args' = CycleArgs
    /\ pc' = "validate"
    /\ started' = started + 1
    /\ UNCHANGED <<entry, cvars, gvars, running, addrinfo, current_timeout, reply_origin, target_ip, ip_version, strategy, ttl, attempt,
                   visited_ips, sock, process, return_code, stderr, current_hop, line, out, probes, raised,
                   io, hop_data, margs, mpc, dest_ip, resolvable, mtr_ip_version, cycle,
                   summaries, mraised>>
    /\ Emit

\* mtr() drops the generator of the cycle: its frame is gone
DropGenerator ==
    /\ pc' = "idle"
    /\ args' = NoArgs
    /\ target_ip' = NoAddr
    /\ ip_version' = 0
    /\ strategy' = ""
    /\ ttl' = 0
    /\ attempt' = 0
    /\ visited_ips' = {}
    /\ sock' = "none"
    /\ process' = "none"
    /\ return_code' = <<>>
    /\ stderr' = ""
    /\ current_hop' = 0
    /\ line' = <<>>
    /\ out' = <<>>
    /\ probes' = 0
    /\ raised' = NoError
    /\ addrinfo' = <<>>
    /\ current_timeout' = 0
    /\ reply_origin' = "none"

\* The consumer is MTRThread.run, which has found `running` cleared at the
\* summary just yielded and returns without resuming mtr()
MtrCancelled == entry = "MTRThread" /\ ~running

\* The traceroute() loop of the cycle ended: statistics and the summary
EndCycle ==
    /\ mpc = "cycle"
    /\ pc \in {"done", "abandoned"}
    /\ hop_data' = UpdateStats(hop_data, cycle + 1)
    /\ summaries' = Append(summaries,
            CycleSummary(cycle + 1, margs.count, Frac(cycle + 1, margs.count),
                         hop_data'))
    /\ cycle' = cycle + 1
    /\ mpc' = IF MtrCancelled THEN "abandoned" ELSE mpc
    /\ DropGenerator
    /\ UNCHANGED <<entry, cvars, gvars, running, io, margs, dest_ip, resolvable, mtr_ip_version, started,
                   mraised>>
    /\ Emit

\* traceroute() raised: `except TracerouteError: continue`; anything else
\* leaves mtr()
CycleRaised ==
    /\ mpc = "cycle"
    /\ pc = "raised"
    /\ IF raised.type = "TracerouteError"
       THEN /\ cycle' = cycle + 1
            /\ UNCHANGED <<mpc, mraised>>
       ELSE /\ mraised' = raised
            /\ mpc' = "raised"
            /\ UNCHANGED cycle
    /\ DropGenerator
    /\ UNCHANGED <<entry, cvars, gvars, running, io, hop_data, margs, dest_ip, resolvable, mtr_ip_version, started,
                   summaries>>
    /\ Emit

\* Variant of FinalTotalPackets: one more than the cycle count
FinalTotalPackets_OneMore == margs.count + 1

\* total_packets = count of the final statistics
FinalTotalPackets == margs.count

\* After the last cycle: the final statistics and the final summary
Finish ==
    /\ mpc = "cycle"
    /\ pc = "idle"
    /\ cycle >= margs.count
    /\ hop_data' = UpdateStats(hop_data, FinalTotalPackets)
    /\ summaries' = Append(summaries,
            CycleSummary(margs.count, margs.count, One, hop_data'))
    /\ mpc' = "done"
    /\ UNCHANGED <<entry, cvars, gvars, running, tvars, io, margs, dest_ip, resolvable, mtr_ip_version, cycle,
                   started, mraised>>
    /\ Emit

(***************************************************************************)
(* Specifications.                                                         *)
(***************************************************************************)
\* The fallback ignores resolve_dns and max_retries: they are varied on the
\* raw-socket platform only.
TracerouteArgs ==
    {a \in [target : {HostName}, max_hops : HopValues, timeout : TimeoutValues,
            resolve_dns : BOOLEAN, protocol : Protocols,
            max_retries : 1 .. MaxRetries, ipv6 : BOOLEAN, platform : Platforms] :
        a.platform = "Windows" => (a.max_retries = 1 /\ ~a.resolve_dns)}

\* The fallback ignores protocol and resolve_dns as well.
MtrArgs ==
    {a \in [target : {HostName}, count : 0 .. MaxCycles, max_hops : MtrHopValues,
            timeout : TimeoutValues, resolve_dns : BOOLEAN, protocol : Protocols,
            ipv6 : BOOLEAN, platform : Platforms] :
        a.platform = "Windows" => (a.protocol \in {"icmp", "gre"} /\ ~a.resolve_dns)}

(***************************************************************************)
(* calculate_checksum and create_icmp_packet, on sequences of bytes.       *)
(***************************************************************************)
ByteValues == {0, 1, 255}
Bytes(n) == [1 .. n -> ByteValues]
NoCall == [fn |-> "none"]

\* `data += b'\x00'` for an odd length
Padded(data) == IF Len(data) % 2 # 0 THEN data \o <<0>> ELSE data

\* the sum of the words (data[i] << 8) + data[i+1]
RECURSIVE WordSum(_)
WordSum(data) ==
    IF Len(data) < 2 THEN 0
    ELSE 256 * data[1] + data[2] + WordSum(SubSeq(data, 3, Len(data)))

\* checksum = (checksum >> 16) + (checksum & 0xffff)
FoldCarry(checksum) == (checksum \div WORD) + (checksum % WORD)

\* ~checksum & 0xffff
calculate_checksum(data) ==
    (WORD - 1) - (FoldCarry(WordSum(Padded(data))) % WORD)

\* struct.pack('!BBHHH', 8, 0, checksum, packet_id, sequence)
Header(checksum, packet_id, sequence) ==
    <<ICMP_ECHO_REQUEST, 0, checksum \div 256, checksum % 256,
      packet_id \div 256, packet_id % 256, sequence \div 256, sequence % 256>>

\* struct.pack('!d', time.time()) for some times of one second
Timestamps ==
    {<<65, 218, 185, 188, 96, 0, 0, 0>>, <<65, 218, 185, 188, 96, 32, 0, 0>>,
     <<65, 218, 185, 188, 96, 64, 0, 0>>}
PaddingSize(packet_size) == Max2(0, packet_size - 8 - 8)

\* the packet for one outcome of time.time() and of the random padding
create_icmp_packet(packet_id, sequence, timestamp, padding) ==
    LET data == timestamp \o padding
        checksum == calculate_checksum(Header(0, packet_id, sequence) \o data)
    IN  Header(checksum, packet_id, sequence) \o data

ChecksumCalls ==
    {[fn |-> "calculate_checksum", data |-> d] :
        d \in UNION {Bytes(n) : n \in 0 .. MaxBytes}}
PacketIds == {0, 1, 40040, WORD - 1}
PacketCalls ==
    [fn : {"create_icmp_packet"}, packet_id : PacketIds, sequence : 1 .. MaxHops,
     packet_size : {0, 16, 17, 18}]

CalculateChecksum ==
    /\ call.fn = "calculate_checksum" /\ returned = <<>>
    /\ returned' = <<calculate_checksum(call.data)>>
    /\ UNCHANGED <<entry, tvars, io, hop_data, mvars, running, signals, call, gvars>>

CreateIcmpPacket ==
    /\ call.fn = "create_icmp_packet" /\ returned = <<>>
    /\ \E timestamp \in Timestamps, padding \in Bytes(PaddingSize(call.packet_size)) :
          returned' = <<create_icmp_packet(call.packet_id, call.sequence,
                                         timestamp, padding)>>
    /\ UNCHANGED <<entry, tvars, io, hop_data, mvars, running, signals, call, gvars>>

InitRun ==
    /\ target_ip = NoAddr
    /\ ip_version = 0
    /\ strategy = ""
    /\ ttl = 0
    /\ attempt = 0
    /\ visited_ips = {}
    /\ sock = "none"
    /\ process = "none"
    /\ return_code = <<>>
    /\ stderr = ""
    /\ current_hop = 0
    /\ line = <<>>
    /\ out = <<>>
    /\ probes = 0
    /\ io = {}
    /\ raised = NoError
    /\ addrinfo = <<>>
    /\ current_timeout = 0
    /\ reply_origin = "none"
    /\ running = TRUE
    /\ signals = <<>>
    /\ threads = <<>>
    /\ traceroute_thread = 0 /\ mtr_thread = 0
    /\ trace_button = TRUE /\ mtr_button = TRUE /\ stop_button = FALSE
    /\ events = {}
    /\ aborted = FALSE
    /\ dest_ip = NoAddr
    /\ resolvable = {}
    /\ mtr_ip_version = 0
    /\ cycle = 0
    /\ started = 0
    /\ hop_data = <<>>
    /\ summaries = <<>>
    /\ mraised = NoError

\* The caller iterates traceroute(...)
Init ==
    /\ entry = "traceroute"
    /\ args \in TracerouteArgs
    /\ pc = "validate"
    /\ margs = NoArgs
    /\ mpc = "unused"
    /\ InitRun
    /\ call = NoCall /\ returned = <<>>

\* The caller iterates mtr(...)
InitMtr ==
    /\ entry = "mtr"
    /\ margs \in MtrArgs
    /\ mpc = "validate"
    /\ args = NoArgs
    /\ pc = "idle"
    /\ InitRun
    /\ call = NoCall /\ returned = <<>>

(***************************************************************************)
(* MainWindow (src/main.py): the buttons that start and stop the threads.  *)
(* A thread is kept by what the window can see of it: its class, its flag  *)
(* `running` and isRunning().                                              *)
(***************************************************************************)
NewThread(class) == [class |-> class, running |-> TRUE, isRunning |-> TRUE]
Alive(t) == t # 0 /\ threads[t].isRunning

reset_ui_state ==
    /\ trace_button' = TRUE
    /\ mtr_button' = TRUE
    /\ stop_button' = FALSE

\* the buttons after a thread was started
DisableStart ==
    /\ trace_button' = FALSE
    /\ mtr_button' = FALSE
    /\ stop_button' = TRUE

\* Assigning a new thread to an attribute drops the last reference to the
\* thread it held.  Qt aborts the process when a QThread is destroyed while
\* it is running; whether the object is destroyed at that point depends on
\* the build, so both outcomes are possible.
Replaced(old) == IF Alive(old) THEN BOOLEAN ELSE {FALSE}

\* A click on trace_button
start_traceroute ==
    /\ ~aborted /\ trace_button /\ Len(threads) < MaxThreads
    /\ \E target \in {"", HostName}, abort \in Replaced(traceroute_thread) :
          IF target = ""
          THEN UNCHANGED gvars
          ELSE IF abort
          THEN /\ aborted' = TRUE
               /\ threads' = [t \in DOMAIN threads |-> [threads[t] EXCEPT !.isRunning = FALSE]]
               /\ UNCHANGED <<traceroute_thread, mtr_thread, trace_button, mtr_button,
                              stop_button, events>>
          ELSE /\ threads' = Append(threads, NewThread("TracerouteThread"))
               /\ traceroute_thread' = Len(threads) + 1
               /\ DisableStart
               /\ UNCHANGED <<mtr_thread, events, aborted>>
    /\ UNCHANGED probing

\* A click on mtr_button
start_mtr ==
    /\ ~aborted /\ mtr_button /\ Len(threads) < MaxThreads
    /\ \E target \in {"", HostName}, abort \in Replaced(mtr_thread) :
          IF target = ""
          THEN UNCHANGED gvars
          ELSE IF abort
          THEN /\ aborted' = TRUE
               /\ threads' = [t \in DOMAIN threads |-> [threads[t] EXCEPT !.isRunning = FALSE]]
               /\ UNCHANGED <<traceroute_thread, mtr_thread, trace_button, mtr_button,
                              stop_button, events>>
          ELSE /\ threads' = Append(threads, NewThread("MTRThread"))
               /\ mtr_thread' = Len(threads) + 1
               /\ DisableStart
               /\ UNCHANGED <<traceroute_thread, events, aborted>>
    /\ UNCHANGED probing

\* The thread stop_tracing stops: traceroute_thread if it is running, else
\* mtr_thread if it is running, else none (0)
Stopped ==
    IF Alive(traceroute_thread) THEN traceroute_thread
    ELSE IF Alive(mtr_thread) THEN mtr_thread
    ELSE 0

\* A click on stop_button.  stop() clears the flag and waits up to one
\* second; the thread returns within that second when it gets its next
\* item in time (ended), else it is still running when stop() returns.
stop_tracing ==
    /\ ~aborted /\ stop_button
    /\ IF Stopped = 0
       THEN UNCHANGED <<threads, events>>
       ELSE \E ended \in BOOLEAN :
               /\ threads' = [threads EXCEPT ![Stopped].running = FALSE,
                                            ![Stopped].isRunning = ~ended]
               /\ events' = IF ended THEN events \cup {Stopped} ELSE events
    /\ reset_ui_state
    /\ UNCHANGED <<traceroute_thread, mtr_thread, aborted>>
    /\ UNCHANGED probing

\* run() of a thread returns, having emitted its finished_signal
Return ==
    /\ ~aborted
    /\ \E t \in DOMAIN threads :
          /\ threads[t].isRunning
          /\ threads' = [threads EXCEPT ![t].isRunning = FALSE]
          /\ events' = events \cup {t}
    /\ UNCHANGED <<traceroute_thread, mtr_thread, trace_button, mtr_button,
                   stop_button, aborted>>
    /\ UNCHANGED probing

\* The GUI thread delivers a queued finished_signal to its slot
trace_finished ==
    /\ ~aborted
    /\ \E t \in events :
          /\ threads[t].class = "TracerouteThread"
          /\ events' = events \ {t}
    /\ reset_ui_state
    /\ UNCHANGED <<threads, traceroute_thread, mtr_thread, aborted>>
    /\ UNCHANGED probing

mtr_finished ==
    /\ ~aborted
    /\ \E t \in events :
          /\ threads[t].class = "MTRThread"
          /\ events' = events \ {t}
    /\ reset_ui_state
    /\ UNCHANGED <<threads, traceroute_thread, mtr_thread, aborted>>
    /\ UNCHANGED probing

\* The window has been constructed
InitApp ==
    /\ entry = "MainWindow"
    /\ args = NoArgs
    /\ pc = "idle"
    /\ margs = NoArgs
    /\ mpc = "unused"
    /\ InitRun
    /\ call = NoCall /\ returned = <<>>

NextApp ==
    \/ start_traceroute
    \/ start_mtr
    \/ stop_tracing
    \/ Return
    \/ trace_finished
    \/ mtr_finished

\* A caller applies calculate_checksum or create_icmp_packet
InitChecksum ==
    /\ entry = "checksum"
    /\ args = NoArgs
    /\ pc = "idle"
    /\ margs = NoArgs
    /\ mpc = "unused"
    /\ InitRun
    /\ call \in ChecksumCalls \cup PacketCalls
    /\ returned = <<>>

NextChecksum ==
    \/ CalculateChecksum
    \/ CreateIcmpPacket

Next ==
    \/ Validate
    \/ Resolve
    \/ SelectStrategy
    \/ OpenSocket
    \/ Probe
    \/ Spawn
    \/ ReadLine
    \/ EndOfOutput
    \/ Wait

NextMtr ==
    \/ Next
    \/ MtrValidate
    \/ MtrResolve
    \/ StartCycle
    \/ EndCycle
    \/ CycleRaised
    \/ Finish

\* TracerouteThread.stop / MTRThread.stop, called from the GUI thread while
\* run() is iterating: self.running = False
ThreadActive ==
    IF entry = "TracerouteThread"
    THEN pc \notin {"done", "raised", "abandoned"}
    ELSE mpc \notin {"done", "raised", "abandoned"}

Stop ==
    /\ entry \in {"TracerouteThread", "MTRThread"}
    /\ running
    /\ ThreadActive
    /\ running' = FALSE
    /\ UNCHANGED <<entry, cvars, gvars, tvars, io, hop_data, mvars, signals>>

\* What TracerouteThread.run passes to traceroute(): max_retries=5, and no
\* ipv6 argument
ThreadHopValues == {1, 2}
TracerouteThreadArgs ==
    {a \in [target : {HostName}, max_hops : ThreadHopValues, timeout : {2},
            resolve_dns : {FALSE}, protocol : {"icmp", "udp", "tcp"},
            max_retries : {THREAD_MAX_RETRIES}, ipv6 : {FALSE},
            platform : Platforms] :
        a.platform = "Windows" => a.protocol = "icmp"}

\* What MTRThread.run passes to mtr(): count=ping_count; timeout and
\* protocol keep their defaults
MTRThreadArgs ==
    [target : {HostName}, count : 1 .. MaxCycles, max_hops : ThreadHopValues,
     timeout : {DEFAULT_TIMEOUT}, resolve_dns : {FALSE}, protocol : {"icmp"},
     ipv6 : BOOLEAN, platform : Platforms]

\* run() of one of the two threads iterates its generator
InitThread ==
    /\ entry \in {"TracerouteThread", "MTRThread"}
    /\ IF entry = "TracerouteThread"
       THEN /\ args \in TracerouteThreadArgs
            /\ pc = "validate"
            /\ margs = NoArgs
            /\ mpc = "unused"
       ELSE /\ margs \in MTRThreadArgs
            /\ mpc = "validate"
            /\ args = NoArgs
            /\ pc = "idle"
    /\ InitRun
    /\ call = NoCall /\ returned = <<>>

NextThread ==
    \/ NextMtr
    \/ Stop

Spec == Init /\ [][Next]_vars
SpecMtr == InitMtr /\ [][NextMtr]_vars
SpecThread == InitThread /\ [][NextThread]_vars
SpecChecksum == InitChecksum /\ [][NextChecksum]_vars
SpecApp == InitApp /\ [][NextApp]_vars

(***************************************************************************)
(* Properties.                                                             *)
(***************************************************************************)
RawStrategies == {"icmp", "icmpv6", "udp"}
HasHop(y) == "hop" \in y.info.keys
IsError(y) == "error" \in y.info.keys
HasWarning(y) == "warning" \in y.info.keys
HopRecords == SelectSeq(out, HasHop)
Last(q) == q[Len(q)]

\* C1: the hop fields of the records a discovery run has yielded are
\* 1, 2, ..., k in that order, with k <= max_hops.
C1_HopsContiguous ==
    /\ Len(HopRecords) <= args.max_hops
    /\ \A i \in 1 .. Len(HopRecords) : HopRecords[i].info.hop = i

\* C1 witness: a raw-socket run that used all of its max_hops > 1 hops
C1_Witness ==
    /\ strategy \in RawStrategies
    /\ pc = "done"
    /\ args.max_hops = MaxHops
    /\ Len(HopRecords) = MaxHops

HasDestination == \E i \in 1 .. Len(out) : out[i].is_destination

\* C2: once a record with is_destination = true has been yielded, the run
\* yields no further record and sends no further probe.
C2_DestinationIsLast ==
    [][HasDestination => (out' = out /\ probes' = probes)]_vars

\* C2 witness: a finished run whose third record is the destination
C2_Witness ==
    /\ pc = "done"
    /\ Len(out) = 3
    /\ out[3].is_destination
    /\ out[3].info.ip = target_ip

\* Addresses of the responding records before record i
SeenBefore(i) == {out[j].info.ip : j \in 1 .. i - 1} \ {"*", NoAddr}

\* C3: in a raw-socket run a record carries the loop warning exactly when
\* its address is that of an earlier responding record, and such a record
\* is the last one yielded.
C3_LoopExactlyOnRepeat ==
    strategy \in RawStrategies =>
        \A i \in 1 .. Len(out) :
            /\ HasWarning(out[i]) <=> out[i].info.ip \in SeenBefore(i)
            /\ HasWarning(out[i]) => i = Len(out)

\* C3 witness: hop 3 repeats the address of hop 1 and ends the run
C3_Witness ==
    /\ strategy \in RawStrategies
    /\ pc = "done"
    /\ Len(out) = 3
    /\ HasWarning(out[3])
    /\ out[3].info.ip = out[1].info.ip
    /\ ~HasWarning(out[2])

\* C4: in a raw-socket run the record of a ttl whose probes all went
\* unanswered carries the address sentinel "*" and the delay sentinel
\* "Timeout", is not the destination, nothing is raised for it, and the run
\* goes on to ttl + 1 while ttl < max_hops.
C4_TimeoutRecord ==
    strategy \in RawStrategies =>
        \A i \in 1 .. Len(out) :
            out[i].info.ip = "*" =>
                /\ out[i].info.delay.text = "Timeout"
                /\ ~out[i].is_destination
                /\ (i = Len(out) /\ i < args.max_hops /\ raised = NoError) =>
                       (pc = "probe" /\ ttl = i + 1)

\* C5: every yielded progress value lies in [0, 1], progress never
\* decreases along the run, it is hop / max_hops on a record that is not the
\* destination and 1 on the destination.
C5_Progress ==
    \A i \in 1 .. Len(out) :
        HasHop(out[i]) =>
            /\ FracLeq(Zero, out[i].progress) /\ FracLeq(out[i].progress, One)
            /\ i > 1 => FracLeq(out[i - 1].progress, out[i].progress)
            /\ IF out[i].is_destination
               THEN FracEq(out[i].progress, One)
               ELSE FracEq(out[i].progress, Frac(out[i].info.hop, args.max_hops))

\* The parameters the entry point was called with
EntryArgs == IF Aggregating(entry) THEN margs ELSE args
InvalidParameters(a) ==
    \/ a.protocol \notin {"icmp", "udp", "tcp"}
    \/ a.max_hops < 1 \/ a.max_hops > HOPS_UPPER
    \/ a.timeout <= 0

\* C6: a call of traceroute() or mtr() with an invalid protocol, max_hops
\* or timeout attempts no I/O, yields nothing and does not complete.
C6_FailFast ==
    InvalidParameters(EntryArgs) =>
        /\ io = {}
        /\ out = <<>>
        /\ summaries = <<>>
        /\ pc # "done"
        /\ mpc # "done"

ResolutionFailed == target_ip = NoAddr /\ pc \notin {"validate", "resolve", "raised"}

\* C7: when the target resolves to no address, traceroute() has yielded
\* exactly one record, the address-resolution error, and has ended without
\* raising, opening a socket, spawning a process or sending a probe.
C7_ResolutionErrorRecord ==
    ResolutionFailed =>
        /\ pc = "done"
        /\ Len(out) = 1
        /\ out[1].info.keys = {"error"}
        /\ out[1].info.error = ERROR_ADDRESS_RESOLUTION
        /\ raised = NoError
        /\ io = {"getaddrinfo"}
        /\ sock = "none" /\ process = "none" /\ probes = 0

\* C7 witness: a run that ended on the resolution error
C7_Witness ==
    /\ ResolutionFailed
    /\ pc = "done"
    /\ Len(out) = 1
    /\ IsError(out[1])

\* C8: after a privilege failure of a raw-socket run, traceroute() has
\* ended without raising, its last record is an error record, and the ttl
\* that failed has no hop record.
C8_PrivilegeFailureRecord ==
    "EPERM" \in io =>
        /\ pc = "done"
        /\ raised = NoError
        /\ out # <<>> /\ IsError(Last(out))
        /\ Len(HopRecords) = ttl - 1

\* A summary has just been yielded by mtr()
JustYielded ==
    /\ summaries # <<>>
    /\ \/ mpc = "done"
       \/ mpc = "cycle" /\ pc = "idle" /\ Last(summaries).cycles_complete = cycle
\* The sample list of an entry of a yielded hop list
Samples(e) == hop_data[e.delays_ref].delays

\* C9: in the summary just yielded for n cycles every hop entry has
\* loss_percent = 100 * (n - samples) / n, avg_delay = the mean of its
\* samples, and std_dev = 0 when it has at most one sample.
C9_SummaryStatistics ==
    JustYielded =>
        LET summary == Last(summaries)
            n == summary.cycles_complete
        IN  \A i \in 1 .. Len(summary.hops) :
                LET e == summary.hops[i]
                    k == Len(Samples(e))
                IN  /\ e.loss_percent[2] # 0
                    /\ e.loss_percent[1] * n = 100 * (n - k) * e.loss_percent[2]
                    /\ k > 0 => /\ e.avg_delay[2] # 0
                                /\ e.avg_delay[1] * k = SeqSum(Samples(e)) * e.avg_delay[2]
                    /\ k <= 1 => e.std_dev[1] = 0

\* C9 witness: after two cycles a hop holds one sample (50 % loss) and
\* another hop holds two different samples
C9_Witness ==
    /\ JustYielded
    /\ Last(summaries).cycles_complete = 2
    /\ \E i, j \in 1 .. Len(Last(summaries).hops) :
          LET a == Samples(Last(summaries).hops[i])
              b == Samples(Last(summaries).hops[j])
          IN  Len(a) = 1 /\ Len(b) = 2 /\ b[1] # b[2]

SeqMin(q) == CHOOSE x \in {q[i] : i \in 1 .. Len(q)} : \A i \in 1 .. Len(q) : x <= q[i]
SeqMax(q) == CHOOSE x \in {q[i] : i \in 1 .. Len(q)} : \A i \in 1 .. Len(q) : x >= q[i]

\* C10: in the summary just yielded every hop entry with samples has
\* min_delay = the least and max_delay = the greatest of its samples.
C10_MinMax ==
    JustYielded =>
        \A i \in 1 .. Len(Last(summaries).hops) :
            LET e == Last(summaries).hops[i]
            IN  Samples(e) # <<>> =>
                    /\ e.min_delay = SeqMin(Samples(e))
                    /\ e.max_delay = SeqMax(Samples(e))

\* Whether a fraction lies in [0, 100]
IsPercent(f) == f[2] > 0 /\ 0 <= f[1] /\ f[1] <= 100 * f[2]

\* C11: every hop of hop_data holds at most as many samples as traceroute()
\* calls mtr() has started, and every loss_percent of every yielded summary
\* lies in [0, 100].
C11_SamplesBounded ==
    /\ \A h \in DOMAIN hop_data : Len(hop_data[h].delays) <= started
    /\ \A i \in 1 .. Len(summaries) :
          \A j \in 1 .. Len(summaries[i].hops) :
              IsPercent(summaries[i].hops[j].loss_percent)

\* C11 witness: mtr() ended after two cycles with a hop that was sampled in
\* both and a hop that was never sampled
C11_Witness ==
    /\ mpc = "done"
    /\ started = 2
    /\ \E h, k \in DOMAIN hop_data :
          /\ Len(hop_data[h].delays) = 2
          /\ Len(hop_data[k].delays) = 0
          /\ FracEq(hop_data[k].loss_percent, Frac(100, 1))

\* The traceroute() call of the current cycle has failed with the error that
\* mtr() swallows
CycleFailed == mpc = "cycle" /\ pc = "raised" /\ raised.type = "TracerouteError"

\* C12: when the traceroute() call of a cycle fails, mtr() is still running
\* and the failed cycle has contributed no sample: every hop holds at most
\* one sample per earlier cycle.
C12_FailedCycleNoSample ==
    CycleFailed =>
        /\ mraised = NoError
        /\ \A h \in DOMAIN hop_data : Len(hop_data[h].delays) <= cycle

\* C13: once mtr() has ended, the last summary it yielded has progress 1.0
\* and cycles_complete = total_cycles = count, every hop entry in it has
\* loss_percent = 100 * (count - samples) / count, and no further summary is
\* yielded.
C13_FinalSummary ==
    /\ [](mpc = "done" =>
            /\ summaries # <<>>
            /\ LET final == Last(summaries)
               IN  /\ FracEq(final.progress, One)
                   /\ final.cycles_complete = margs.count
                   /\ final.total_cycles = margs.count
                   /\ \A i \in 1 .. Len(final.hops) :
                         LET e == final.hops[i]
                         IN  /\ e.loss_percent[2] # 0
                             /\ e.loss_percent[1] * margs.count
                                  = 100 * (margs.count - Len(Samples(e))) * e.loss_percent[2])
    /\ [][mpc = "done" => summaries' = summaries]_vars

\* C13 witness: mtr() ended after two cycles, a hop replied in one of them
C13_Witness ==
    /\ mpc = "done"
    /\ margs.count = 2
    /\ \E i \in 1 .. Len(Last(summaries).hops) :
          LET e == Last(summaries).hops[i]
          IN  Len(Samples(e)) = 1 /\ FracEq(e.loss_percent, Frac(50, 1))

\* The last record of the current cycle for hop h, left by a responder
LastReplyFor(h) ==
    LET idx == {i \in 1 .. Len(out) :
                   HasHop(out[i]) /\ out[i].info.hop = h /\ out[i].info.ip # "*"}
    IN  IF idx = {} THEN 0 ELSE CHOOSE i \in idx : \A j \in idx : j <= i

\* C14: the hop_data entry of hop h carries the address and hostname of the
\* most recent record in which a responder answered at hop h, whatever was
\* observed for hop h before.
C14_LastKnownAddress ==
    entry = "mtr" =>
        \A h \in DOMAIN hop_data :
            LastReplyFor(h) # 0 =>
                /\ hop_data[h].ip = out[LastReplyFor(h)].info.ip
                /\ hop_data[h].hostname = out[LastReplyFor(h)].info.hostname

\* The traceroute() call has ended, or its consumer has dropped it
RunTerminated == pc \in {"done", "raised", "abandoned"}

\* C16: when a discovery run has terminated, the socket it opened has been
\* closed and the subprocess it spawned has been waited for.
C16_HandlesReleased ==
    RunTerminated => (sock # "open" /\ process # "running")

\* C15: once the flag `running` has been cleared, no further probe is sent.
C15_NoProbeAfterStop ==
    [][~running => probes' <= probes]_vars

\* The first candidate of a family in a list, or NoTarget
FirstOfFamily(list, family) ==
    LET idx == {i \in 1 .. Len(list) : list[i][1] = family}
    IN  IF idx = {} THEN NoTarget ELSE list[CHOOSE i \in idx : \A j \in idx : i <= j]

\* The candidate the resolution is to select
ExpectedTarget(list, ipv6) ==
    LET preferred == IF ipv6 THEN 6 ELSE 4
        other == IF ipv6 THEN 4 ELSE 6
    IN  IF FirstOfFamily(list, preferred) # NoTarget
        THEN FirstOfFamily(list, preferred)
        ELSE FirstOfFamily(list, other)

\* C17: after the resolution step of traceroute() the selected address and
\* version are those of the first candidate of the preferred family if the
\* list holds one, else of the first candidate of the other family; when
\* the list holds neither, the address-resolution error record is yielded.
C17_Resolution ==
    /\ pc = "select" =>
          /\ ExpectedTarget(addrinfo, args.ipv6) # NoTarget
          /\ <<ip_version, target_ip>> = ExpectedTarget(addrinfo, args.ipv6)
    /\ ResolutionFailed =>
          /\ ExpectedTarget(addrinfo, args.ipv6) = NoTarget
          /\ out # <<>> /\ Last(out).info.error = ERROR_ADDRESS_RESOLUTION

\* C17 witness: the list holds two different addresses of the family that
\* is not preferred, and the first of them is selected
C17_Witness ==
    /\ pc = "select"
    /\ Len(addrinfo) = 2
    /\ addrinfo[1] # addrinfo[2]
    /\ addrinfo[1][1] = addrinfo[2][1]
    /\ addrinfo[1][1] = (IF args.ipv6 THEN 4 ELSE 6)
    /\ target_ip = addrinfo[1][2]

\* mtr() has ended, by its final yield or by an exception
MtrTerminated == mpc \in {"done", "raised"}

\* C18: every traceroute() call of mtr() is made against the address mtr()
\* resolved, and when an mtr() call with count >= 1 that resolved its target
\* has ended, it has started exactly count calls; it never starts more.
C18_ExactlyCountRuns ==
    /\ started <= margs.count
    /\ (mpc = "cycle" /\ pc # "idle") => args.target = dest_ip
    /\ (MtrTerminated /\ dest_ip # NoAddr /\ margs.count >= 1) => started = margs.count

\* C19: the datagram behind the latest responder that send_receive_packet
\* returned in a raw-socket run answers the probe that was being awaited,
\* never an earlier probe of the run and never no probe at all.
C19_ReplyMatchesProbe ==
    strategy \in RawStrategies => reply_origin \in {"none", "probe"}

\* A step in which send_receive_packet is called
ProbeSent == probes' = probes + 1
\* A step in which a record is yielded
RecordYielded == Len(out') = Len(out) + 1

\* C20: in a raw-socket run every call of send_receive_packet is attempt
\* i < max_retries of its ttl and waits timeout + 0.5 s * i; an unanswered
\* attempt that is not the last one is followed by the next attempt of the
\* same ttl; a responder ends the attempts of the ttl with its record; the
\* timeout record of a ttl is yielded by the unanswered attempt
\* max_retries - 1; and the run sends at most max_hops * max_retries probes.
C20_Retries ==
    /\ [](strategy \in RawStrategies =>
            /\ attempt < args.max_retries
            /\ probes <= args.max_hops * args.max_retries)
    /\ [][ProbeSent =>
            /\ attempt < args.max_retries
            /\ current_timeout' = 2 * args.timeout + attempt
            /\ IF RecordYielded
               THEN /\ Last(out').info.hop = ttl
                    /\ Last(out').info.ip = "*" => attempt = args.max_retries - 1
               ELSE pc' = "probe" =>
                        (ttl' = ttl /\ attempt' = attempt + 1
                            /\ attempt + 1 < args.max_retries)]_vars

\* C20 witness: a ttl was answered at its second attempt, after the ttl
\* before it had timed out on all attempts
C20_Witness ==
    /\ strategy \in RawStrategies
    /\ args.max_retries = 2
    /\ Len(out) = 2
    /\ out[1].info.ip = "*"
    /\ out[2].info.ip # "*"
    /\ probes = 4
    /\ current_timeout = 2 * args.timeout + 1

\* C21: after a socket error other than EPERM while sending or receiving a
\* probe, the raw-socket run has ended with an error record as its last
\* record: no further attempt or ttl is pending and the ttl that failed has
\* no hop record.
C21_TransportFailureRecord ==
    (strategy \in RawStrategies /\ "socket.error" \in io) =>
        /\ pc # "probe"
        /\ out # <<>> /\ IsError(Last(out))
        /\ Len(HopRecords) = ttl - 1

\* C22: in the tracert fallback a record carries the loop warning exactly
\* when its address was reported by an earlier record of the run (timed-out
\* hops never count), and a record with the warning is the last one yielded.
C22_FallbackLoopIsLast ==
    strategy = "tracert" =>
        \A i \in 1 .. Len(out) :
            HasHop(out[i]) =>
                /\ HasWarning(out[i]) <=> out[i].info.ip \in SeenBefore(i)
                /\ HasWarning(out[i]) => i = Len(out)

\* the round-trip columns of a numbered line: "*", "<1" or a number
IsTiming(tok) == tok = "*" \/ tok = "<1" \/ IsDigit(tok)
TimingTokens(parts) == SelectSeq(Tail(parts), IsTiming)
NumericTimings(parts) ==
    LET IsNumeric(tok) == tok # "*"
        Value(tok) == RttValue(tok)[1]
        toks == SelectSeq(TimingTokens(parts), IsNumeric)
    IN  [i \in 1 .. Len(toks) |-> Value(toks[i])]
\* the address token of a numbered line, NoAddr when it has none
Responder(parts) ==
    IF \E i \in 1 .. Len(parts) : parts[i] \in AllAddrs
    THEN parts[CHOOSE i \in 1 .. Len(parts) : parts[i] \in AllAddrs]
    ELSE NoAddr
\* the fallback has just yielded the record of the numbered line `line`
LineRecorded ==
    /\ strategy = "tracert" /\ line # <<>> /\ IsDigit(line[1])
    /\ out # <<>> /\ HasHop(Last(out))

\* C23: the record of a numbered line is the full timeout (ip '*', delay
\* 'Timeout') exactly when every round-trip column of the line is '*';
\* otherwise it carries the address printed on the line and the mean of the
\* numeric columns.
C23_TimeoutIffAllMarkers ==
    LineRecorded =>
        LET info == Last(out).info
            timings == NumericTimings(line)
        IN  /\ (info.ip = "*" /\ info.delay = TracertTimeoutDelay)
                    <=> timings = <<>>
            /\ timings # <<>> =>
                    /\ info.ip = Responder(line)
                    /\ info.delay = FormatTracertDelay(SeqSum(timings), Len(timings))

\* tracert has ended with a non-zero exit code or with output on stderr
ToolFailed ==
    /\ strategy = "tracert" /\ return_code # <<>>
    /\ (return_code[1] # 0 \/ stderr # "")

\* C24: when tracert ends with a failure, the run yields one error record
\* exactly when no numbered line had been parsed; after at least one hop
\* the failure adds no record, raises nothing and leaves the records
\* already yielded as they were.
C24_ToolFailure ==
    /\ [](ToolFailed =>
            /\ raised = NoError
            /\ current_hop = 0 <=> (out # <<>> /\ IsError(Last(out)))
            /\ current_hop > 0 =>
                    \A i \in 1 .. Len(out) : HasHop(out[i]) /\ ~IsError(out[i]))
    /\ [][(pc = "tracert_wait" /\ current_hop > 0) =>
                (out' = out /\ raised' = NoError)]_vars
C24_Witness ==
    ToolFailed /\ pc = "done" /\ current_hop > 0 /\ Len(out) = current_hop

\* mtr() has gone through its resolution of the target
MtrResolved == mpc \notin {"unused", "validate", "resolve"} /\ "getaddrinfo" \in io
MtrResolutionError ==
    mraised = Error("TracerouteError", "Failed to resolve target")

\* C25: mtr() called with ipv6 for a target that has only IPv4 addresses
\* resolves to the IPv4 address and runs over IPv4, and mtr() fails with a
\* resolution error only when the target has no address of either family.
C25_MtrIPv6Fallback ==
    MtrResolved =>
        /\ (margs.ipv6 /\ resolvable = {4}) =>
                /\ dest_ip = AddrOf(4) /\ mtr_ip_version = 4
                /\ mraised = NoError
        /\ MtrResolutionError => resolvable = {}

\* C26: the hop list of every summary is sorted by strictly increasing hop
\* number, and once a summary has been yielded no later step of mtr()
\* changes a field of one of its entries or the sample list an entry holds.
C26_SummaryIsSnapshot ==
    /\ [](\A k \in 1 .. Len(summaries) :
             \A i, j \in 1 .. Len(summaries[k].hops) :
                 i < j => summaries[k].hops[i].hop < summaries[k].hops[j].hop)
    /\ [][\A k \in 1 .. Len(summaries) :
             /\ k <= Len(summaries') /\ summaries'[k] = summaries[k]
             /\ \A i \in 1 .. Len(summaries[k].hops) :
                    LET ref == summaries[k].hops[i].delays_ref
                    IN  hop_data'[ref].delays = hop_data[ref].delays]_vars

\* C27: calculate_checksum returns the 16-bit complement of the
\* one's-complement sum of the padded data, every carry folded back until
\* the sum fits in 16 bits, and the folded sum over a packet built by
\* create_icmp_packet, stored checksum included, is 0xFFFF.
C27_Checksum ==
    LET RECURSIVE Folded(_)
        Folded(sum) == IF sum < WORD THEN sum
                       ELSE Folded((sum \div WORD) + (sum % WORD))
        OnesComplementSum(data) == Folded(WordSum(Padded(data)))
    IN  returned # <<>> =>
            /\ call.fn = "calculate_checksum" =>
                    returned[1] = (WORD - 1) - OnesComplementSum(call.data)
            /\ call.fn = "create_icmp_packet" =>
                    OnesComplementSum(returned[1]) = WORD - 1

\* C28: every entry of every hop list yielded by mtr() has a hop number in
\* 1..max_hops; an error record of a discovery run creates no entry.
C28_HopNumbersInRange ==
    \A k \in 1 .. Len(summaries) :
        \A i \in 1 .. Len(summaries[k].hops) :
            summaries[k].hops[i].hop \in 1 .. margs.max_hops

FinishedSignals ==
    SelectSeq(signals, LAMBDA sig : sig[1] = "finished_signal")
ThreadReturned ==
    IF entry = "TracerouteThread" THEN pc \in {"done", "raised", "abandoned"}
    ELSE mpc \in {"done", "raised", "abandoned"}
\* run() ended by the end of its generator or by the break at the destination
NormalCompletion ==
    IF entry = "TracerouteThread"
    THEN /\ raised = NoError
         /\ \A i \in 1 .. Len(out) : ~IsError(out[i])
         /\ pc = "done" \/ (out # <<>> /\ Last(out).is_destination)
    ELSE mpc = "done" /\ mraised = NoError

\* C30: run() of either thread emits finished_signal exactly once, when it
\* returns; it is the last signal emitted, and it carries True only on
\* normal completion and False only after a cancellation, an error record
\* or an exception.
C30_FinishedOnce ==
    /\ ~ThreadReturned => FinishedSignals = <<>>
    /\ ThreadReturned =>
            /\ Len(FinishedSignals) = 1
            /\ Last(signals) = FinishedSignals[1]
            /\ FinishedSignals[1][2] => NormalCompletion
            /\ ~FinishedSignals[1][2] => (~running \/ ~NormalCompletion)
C30_Witness ==
    /\ ThreadReturned /\ signals # <<>>
    /\ Last(signals) = Finished(FALSE)
    /\ Len(signals) >= 3
    /\ ~running

RunningThreads == {t \in DOMAIN threads : threads[t].isRunning}

\* C29: at most one thread started by the window is running at any time,
\* and a thread is started only when no thread started before is running.
C29_OneThread ==
    /\ [](Cardinality(RunningThreads) <= 1)
    /\ [][Len(threads') > Len(threads) => RunningThreads = {}]_vars

====
